---- MODULE Spec2Model ----
(***************************************************************************)
(* Model of Pages/ensamblado.py: the forecasting pipeline                  *)
(* generate_predictions (fetch, clean, normalise, select features, split,  *)
(* train SVR and LSTM, predict, ensemble, score, package) and the helper   *)
(* functions it calls.                                                     *)
(*                                                                         *)
(* Numbers.  The program computes in floating point; the model computes    *)
(* in exact rationals <<num, den>> with den > 0.  A missing cell (NaN) is  *)
(* the pair <<0, 0>>.                                                      *)
(*                                                                         *)
(* Frames.  A DataFrame is [columns |-> sequence of names, rows |->        *)
(* sequence of functions from the names to cells]; a Series is a sequence. *)
(* Positions are 1-based here and 0-based in the program.                  *)
(***************************************************************************)
EXTENDS Integers, Sequences, FiniteSets, TLC

VARIABLES
    lib,                  \* behaviour of the installed scikit-learn
    input,                \* the series the data source answers with
    pc,                   \* next stage of generate_predictions
    error,                \* exception propagating out of the call
    stages,               \* history: stages executed so far, in order
    origin,               \* history: raw position of each row of data
    data,                 \* local `data`
    dates,                \* local `dates`
    scaler,               \* fitted MinMaxScaler: per column data_min / data_max
    selected_features,    \* local `selected_features`
    X, y,                 \* locals `X`, `y`
    train_size,           \* local `train_size`
    X_train, X_test,
    y_train, y_test,
    dates_train, dates_test,
    X_train_lstm, X_test_lstm,
    svm_model, lstm_model,
    svm_predictions, lstm_predictions, combined_predictions,
    metrics,              \* the six metric locals computed so far
    result                \* the tuple returned to the caller

vars == << lib, input, pc, error, stages, origin, data, dates, scaler,
           selected_features, X, y, train_size, X_train, X_test, y_train,
           y_test, dates_train, dates_test, X_train_lstm, X_test_lstm,
           svm_model, lstm_model, svm_predictions, lstm_predictions,
           combined_predictions, metrics, result >>

(***************************************************************************)
(* Bounds of the model.                                                    *)
(***************************************************************************)
\* largest number of raw records the data source answers with
MaxRows == 9

(***************************************************************************)
(* Program constants.                                                      *)
(***************************************************************************)
target_column == "Close"
num_features == 5
\* GridSearchCV(..., cv=5)
cv == 5
\* mutual_info_regression's default n_neighbors
n_neighbors == 3

(***************************************************************************)
(* Rational arithmetic.                                                    *)
(***************************************************************************)
NaN == << 0, 0 >>

IsNaN(v) == v[2] = 0

Rat(n) == << n, 1 >>

RatEq(a, b) == a[1] * b[2] = b[1] * a[2]

RatLe(a, b) == a[1] * b[2] <= b[1] * a[2]

RatLt(a, b) == a[1] * b[2] < b[1] * a[2]

RatMin(a, b) == IF RatLe(a, b) THEN a ELSE b

RatMax(a, b) == IF RatLe(a, b) THEN b ELSE a

RECURSIVE Gcd(_, _)
Gcd(a, b) == IF b = 0 THEN a ELSE Gcd(b, a % b)

Abs(n) == IF n < 0 THEN -n ELSE n

\* lowest terms, so that equal numbers are equal values
Norm(a) ==
    LET g == Gcd(Abs(a[1]), a[2])
    IN  IF g = 0 THEN a ELSE << a[1] \div g, a[2] \div g >>

RatAdd(a, b) == Norm(<< a[1] * b[2] + b[1] * a[2], a[2] * b[2] >>)

RatHalf(a) == Norm(<< a[1], 2 * a[2] >>)

Range(s) == { s[i] : i \in 1..Len(s) }

EmptyFrame == [columns |-> << >>, rows |-> << >>]

\* df[cols] / df.drop(columns=...): the frame cut down to the columns `cols`
Project(df, cols) ==
    [columns |-> cols,
     rows |-> [i \in 1..Len(df.rows) |-> [c \in Range(cols) |-> df.rows[i][c]]]]

\* df.drop(columns=[name])
DropColumn(df, name) ==
    Project(df, SelectSeq(df.columns, LAMBDA c : c # name))

\* df[name]
Column(df, name) == [i \in 1..Len(df.rows) |-> df.rows[i][name]]

\* s[a:b] by position (the program's 0-based half-open slice [a, b))
Slice(s, a, b) == SubSeq(s, a + 1, b)


(***************************************************************************)
(* The installed scikit-learn.  ensamblado.py pins no version, and two     *)
(* behaviours it relies on differ between releases:                        *)
(*   kTooLarge: SelectKBest(k).fit on fewer than k columns raises          *)
(*     ValueError in older releases and only warns, keeping every column,  *)
(*     in newer ones;                                                      *)
(*   forceFinite: f_regression scores a constant column NaN in older       *)
(*     releases (ranked below every number by SelectKBest) and 0 in newer  *)
(*     ones.                                                               *)
(***************************************************************************)
LibProfiles ==
    { [kTooLarge |-> "raise", forceFinite |-> FALSE],
      [kTooLarge |-> "raise", forceFinite |-> TRUE],
      [kTooLarge |-> "warn",  forceFinite |-> TRUE] }

(***************************************************************************)
(* Inputs: what the data source answers with.  A series has n daily        *)
(* records in ascending date order; record nanRow (0: none) holds missing  *)
(* values; the last record's High and Close carry a price spike or not.    *)
(***************************************************************************)
YahooColumns == << "Open", "High", "Low", "Close", "Adj Close", "Volume" >>

ColumnChoices ==
    { << "Open", "High", "Low", "Close", "Adj Close" >>,
      YahooColumns,
      << "Open", "High", "Low", "Close", "Adj Close", "Volume", "Turnover" >> }

Shapes == { "trend", "flat", "choppy" }

Frames ==
    { f \in [n : 0..MaxRows, cols : ColumnChoices, shape : Shapes,
             nanRow : 0..MaxRows, spike : BOOLEAN] : f.nanRow <= f.n }

\* calendar day of the i-th trading day (five trading days a week)
RawDate(i) == i + 2 * ((i - 1) \div 5)

BaseValue(shape, c, i) ==
    CASE shape = "trend" ->
           ( CASE c = "Open"      -> 3 + (i \div 2)
               [] c = "High"      -> 4 + (i \div 2)
               [] c = "Low"       -> 2 + (i \div 3)
               [] c = "Close"     -> 3 + ((i + 1) \div 2)
               [] c = "Adj Close" -> 2 + ((i + 1) \div 2)
               [] c = "Volume"    -> 1 + ((3 * i) % 4)
               [] OTHER           -> 6 - (i \div 3) )
      [] shape = "flat" ->
           ( CASE c = "Volume"    -> 0
               [] OTHER           -> 5 )
      [] OTHER ->
           ( CASE c = "Open"      -> 4 + (i % 3)
               [] c = "High"      -> 6 + ((2 * i) % 5)
               [] c = "Low"       -> 3 + (i % 2)
               [] c = "Close"     -> 4 + ((i * i) % 4)
               [] c = "Adj Close" -> 4 + ((i * i) % 4)
               [] c = "Volume"    -> 2
               [] OTHER           -> 1 + (i % 4) )

RawCell(f, i, c) ==
    IF c = "Date" THEN Rat(RawDate(i))
    ELSE IF i = f.nanRow THEN NaN
    ELSE IF f.spike /\ i = f.n /\ c \in { "High", "Close" }
         THEN Rat(BaseValue(f.shape, c, i) + 3)
    ELSE Rat(BaseValue(f.shape, c, i))

\* pd.read_csv(url): the parsed CSV, Date column first
read_csv(f) ==
    LET cols == << "Date" >> \o f.cols
    IN  [columns |-> cols,
         rows |-> [i \in 1..f.n |-> [c \in Range(cols) |-> RawCell(f, i, c)]]]

(***************************************************************************)
(* clean_data: data.dropna()                                               *)
(***************************************************************************)
HasNaN(df, i) == \E c \in Range(df.columns) : IsNaN(df.rows[i][c])

\* positions of the rows dropna keeps, ascending
RECURSIVE KeptUpTo(_, _)
KeptUpTo(df, k) ==
    IF k = 0 THEN << >>
    ELSE IF HasNaN(df, k) THEN KeptUpTo(df, k - 1)
    ELSE Append(KeptUpTo(df, k - 1), k)

Kept(df) == KeptUpTo(df, Len(df.rows))

clean_data(df) ==
    LET kept == Kept(df)
    IN  [columns |-> df.columns,
         rows |-> [k \in 1..Len(kept) |-> df.rows[kept[k]]]]

(***************************************************************************)
(* normalize_data: MinMaxScaler().fit_transform(data), rebuilt as a frame  *)
(* with the same columns and a fresh 0..n-1 index.                         *)
(***************************************************************************)
RECURSIVE SeqMin(_)
SeqMin(s) ==
    IF Len(s) = 1 THEN s[1] ELSE RatMin(s[1], SeqMin(Tail(s)))

RECURSIVE SeqMax(_)
SeqMax(s) ==
    IF Len(s) = 1 THEN s[1] ELSE RatMax(s[1], SeqMax(Tail(s)))

\* a - b, for a >= b
RatSub(a, b) == << a[1] * b[2] - b[1] * a[2], a[2] * b[2] >>

\* a / b, for b > 0
RatDiv(a, b) == << a[1] * b[2], a[2] * b[1] >>

\* MinMaxScaler.fit: data_min_, data_max_, and data_range_ with zeros
\* replaced by 1 (sklearn's _handle_zeros_in_scale)
FitScaler(df) ==
    [c \in Range(df.columns) |->
        LET col == Column(df, c)
            lo  == SeqMin(col)
            hi  == SeqMax(col)
        IN  [data_min |-> lo, data_max |-> hi,
             divisor  |-> IF RatEq(lo, hi) THEN Rat(1) ELSE RatSub(hi, lo)]]

\* a scaler that divides by the column's maximum instead of shifting by its
\* minimum and dividing by its range
ScaleCellByMax(sc, x) == RatDiv(x, sc.data_max)

\* MinMaxScaler.transform of one cell: x * scale_ + min_ = (x - data_min) / divisor
ScaleCell(sc, x) == RatDiv(RatSub(x, sc.data_min), sc.divisor)

normalize_data(df) ==
    LET sc == FitScaler(df)
    IN  [frame  |-> [columns |-> df.columns,
                     rows |-> [i \in 1..Len(df.rows) |->
                                 [c \in Range(df.columns) |-> ScaleCell(sc[c], df.rows[i][c])]]],
         scaler |-> sc]


(***************************************************************************)
(* select_features: mutual_info_regression (computed, unused) and          *)
(* SelectKBest(f_regression, k).                                           *)
(***************************************************************************)
RECURSIVE Lcm(_)
Lcm(s) ==
    IF Len(s) = 0 THEN 1
    ELSE LET m == Lcm(Tail(s)) IN (s[1][2] * m) \div Gcd(s[1][2], m)

\* the column over its common denominator: the integer numerators
Numerators(col) ==
    LET d == Lcm(col) IN [i \in 1..Len(col) |-> col[i][1] * (d \div col[i][2])]

RECURSIVE Sum(_)
Sum(s) == IF Len(s) = 0 THEN 0 ELSE s[1] + Sum(Tail(s))

Dot(a, b) == Sum([i \in 1..Len(a) |-> a[i] * b[i]])

\* n^2 times the (co)variance of the centred columns
Cov(a, b) == Len(a) * Dot(a, b) - Sum(a) * Sum(b)

(***************************************************************************)
(* f_regression's score of one column, as SelectKBest ranks it.  The       *)
(* score is F = r^2 / (1 - r^2) * (n - 2), increasing in the squared       *)
(* correlation r^2 = Cov(x,y)^2 / (Cov(x,x) * Cov(y,y)), which does not    *)
(* depend on the columns' denominators.  Every column is scored against    *)
(* the same y, so the ranking is that of Cov(x,y)^2 / Cov(x,x).  A         *)
(* constant x or y makes r = 0/0: NaN, which SelectKBest's _clean_nans     *)
(* ranks lowest, or 0 with force_finite.                                   *)
(***************************************************************************)
FScoreRank(profile, xcol, ycol) ==
    LET a == Numerators(xcol)
        b == Numerators(ycol)
    IN  IF Cov(a, a) = 0 \/ Cov(b, b) = 0
        THEN (IF profile.forceFinite THEN Rat(0) ELSE Rat(-1))
        ELSE << Cov(a, b) * Cov(a, b), Cov(a, a) >>

\* SelectKBest._get_support_mask: argsort(scores, kind="mergesort")[-k:],
\* a stable ascending sort, so of two equal scores the later column wins
Outranks(scores, j, i) ==
    \/ RatLt(scores[i], scores[j])
    \/ RatEq(scores[i], scores[j]) /\ j > i

KBestMask(scores, k) ==
    [i \in 1..Len(scores) |->
        Cardinality({ j \in 1..Len(scores) : Outranks(scores, j, i) }) < k]

\* the return value of select_features(X, y, num_features), when it returns
select_features(profile, Xf, yv, k) ==
    LET scores == [i \in 1..Len(Xf.columns) |->
                      FScoreRank(profile, Column(Xf, Xf.columns[i]), yv)]
        mask   == KBestMask(scores, k)
        keep   == { Xf.columns[i] : i \in { j \in 1..Len(scores) : mask[j] } }
    IN  SelectSeq(Xf.columns, LAMBDA c : c \in keep)

\* what select_features raises, or "none"
select_features_raises(profile, Xf, k) ==
    IF Len(Xf.rows) <= n_neighbors
    THEN "ValueError"                  \* mutual_info_regression: too few samples
    ELSE IF Len(Xf.columns) < k /\ profile.kTooLarge = "raise"
    THEN "ValueError"                  \* SelectKBest: k > n_features
    ELSE "none"

(***************************************************************************)
(* The trained models.  A fitted predictor is opaque: the model draws its  *)
(* behaviour from three fits.                                              *)
(***************************************************************************)
Fits == { "low", "high", "follow" }

\* model.predict(X): one value per row of X
predict(model, Xf) ==
    [i \in 1..Len(Xf.rows) |->
        CASE model = "low"  -> << 1, 4 >>
          [] model = "high" -> << 3, 4 >>
          [] OTHER          -> Norm(Xf.rows[i][Xf.columns[1]])]

\* X.values.reshape((rows, 1, cols)): every row becomes one time step holding
\* the row's cells in column order
reshape(Xf) ==
    [i \in 1..Len(Xf.rows) |->
        << [j \in 1..Len(Xf.columns) |-> Xf.rows[i][Xf.columns[j]]] >>]

\* model.predict(X_lstm).flatten(): one value per sequence
predict_lstm(model, Xs) ==
    [i \in 1..Len(Xs) |->
        CASE model = "low"  -> << 1, 4 >>
          [] model = "high" -> << 3, 4 >>
          [] OTHER          -> Norm(Xs[i][1][1])]

\* the two predictions added up and not halved
median2Sum(a, b) == RatAdd(a, b)

\* np.median([a, b], axis=0): for two members, the mean of the two
median2(a, b) == RatHalf(RatAdd(a, b))

combine(p, q) == [i \in 1..Len(p) |-> median2(p[i], q[i])]

MetricNames ==
    { "mape_svm", "mape_lstm", "mape_combined",
      "rmse_svm", "rmse_lstm", "rmse_combined" }


(***************************************************************************)
(* generate_predictions, stage by stage.  pc names the stage to run next;  *)
(* an exception ends the call at once (pc = "Error"), a return ends it     *)
(* with pc = "Done".                                                       *)
(***************************************************************************)
StageOrder ==
    << "Fetch", "Clean", "Normalize", "SelectFeatures", "Split", "TrainKernel",
       "TrainSequence", "Predict", "Ensemble", "Score", "Package" >>

Init ==
    /\ lib \in LibProfiles
    /\ input = [n |-> 0, cols |-> YahooColumns, shape |-> "flat",
                nanRow |-> 0, spike |-> FALSE]
    /\ pc = "Fetch"
    /\ error = "none"
    /\ stages = << >>
    /\ origin = << >>
    /\ data = EmptyFrame
    /\ dates = << >>
    /\ scaler = << >>
    /\ selected_features = << >>
    /\ X = EmptyFrame
    /\ y = << >>
    /\ train_size = 0
    /\ X_train = EmptyFrame
    /\ X_test = EmptyFrame
    /\ y_train = << >>
    /\ y_test = << >>
    /\ dates_train = << >>
    /\ dates_test = << >>
    /\ X_train_lstm = << >>
    /\ X_test_lstm = << >>
    /\ svm_model = "none"
    /\ lstm_model = "none"
    /\ svm_predictions = << >>
    /\ lstm_predictions = << >>
    /\ combined_predictions = << >>
    /\ metrics = { }
    /\ result = << >>

\* the exception swallowed and the call returning what it has
RaiseSwallowed(e) ==
    /\ pc' = "Done"
    /\ error' = e
    /\ stages' = Append(stages, pc)

\* the stage at pc runs and raises e: nothing in generate_predictions catches
\* it, so the call ends there
Raise(e) ==
    /\ pc' = "Error"
    /\ error' = e
    /\ stages' = Append(stages, pc)

\* the stage at pc runs to its end; `next` is the stage after it
Advance(next) ==
    /\ pc' = next
    /\ error' = error
    /\ stages' = Append(stages, pc)

prepVars == << origin, data, dates, scaler, selected_features >>
splitVars == << X, y, train_size, X_train, X_test, y_train, y_test,
                dates_train, dates_test, X_train_lstm, X_test_lstm >>
modelVars == << svm_model, lstm_model >>
outVars == << svm_predictions, lstm_predictions, combined_predictions,
              metrics, result >>

\* lines 88-98: read the CSV, keep the Date column aside
Fetch ==
    /\ pc = "Fetch"
    /\ \E ok \in BOOLEAN, f \in Frames :
          IF ok
          THEN LET csv == read_csv(f)
               IN  /\ input' = f
                   /\ dates' = Column(csv, "Date")
                   /\ data' = DropColumn(csv, "Date")
                   /\ origin' = [i \in 1..f.n |-> i]
                   /\ Advance("Clean")
          ELSE /\ Raise("HTTPError")
               /\ UNCHANGED << input, dates, data, origin >>
    /\ UNCHANGED << lib, scaler, selected_features, splitVars, modelVars, outVars >>

\* line 101
Clean ==
    /\ pc = "Clean"
    /\ data' = clean_data(data)
    /\ origin' = [k \in 1..Len(Kept(data)) |-> origin[Kept(data)[k]]]
    /\ Advance("Normalize")
    /\ UNCHANGED << lib, input, dates, scaler, selected_features,
                    splitVars, modelVars, outVars >>

\* line 102; MinMaxScaler refuses an array with no rows
Normalize ==
    /\ pc = "Normalize"
    /\ IF Len(data.rows) = 0
       THEN /\ Raise("ValueError")
            /\ UNCHANGED << data, scaler >>
       ELSE /\ data' = normalize_data(data).frame
            /\ scaler' = normalize_data(data).scaler
            /\ Advance("SelectFeatures")
    /\ UNCHANGED << lib, input, origin, dates, selected_features,
                    splitVars, modelVars, outVars >>

\* lines 105-109
SelectFeatures ==
    /\ pc = "SelectFeatures"
    /\ LET candidates == DropColumn(data, target_column)
           raised     == select_features_raises(lib, candidates, num_features)
           chosen     == Append(select_features(lib, candidates,
                                                Column(data, target_column),
                                                num_features),
                                target_column)
       IN  IF raised # "none"
           THEN /\ Raise(raised)
                /\ UNCHANGED << data, selected_features >>
           ELSE /\ selected_features' = chosen
                /\ data' = Project(data, chosen)
                /\ Advance("Split")
    /\ UNCHANGED << lib, input, origin, dates, scaler,
                    splitVars, modelVars, outVars >>

\* the training size rounded up instead of truncated
TrainSizeCeil(n) == (n * 4 + 4) \div 5

\* int(len(X) * 0.8)
TrainSize(n) == (n * 4) \div 5

\* lines 112-123
Split ==
    /\ pc = "Split"
    /\ LET Xf == DropColumn(data, target_column)
           yv == Column(data, target_column)
           ts == TrainSize(Len(Xf.rows))
       IN  /\ X' = Xf
           /\ y' = yv
           /\ train_size' = ts
           /\ X_train' = [Xf EXCEPT !.rows = Slice(Xf.rows, 0, ts)]
           /\ X_test' = [Xf EXCEPT !.rows = Slice(Xf.rows, ts, Len(Xf.rows))]
           /\ y_train' = Slice(yv, 0, ts)
           /\ y_test' = Slice(yv, ts, Len(yv))
           /\ dates_train' = Slice(dates, 0, ts)
           /\ dates_test' = Slice(dates, ts, Len(dates))
           /\ X_train_lstm' = reshape([Xf EXCEPT !.rows = Slice(Xf.rows, 0, ts)])
           /\ X_test_lstm' = reshape([Xf EXCEPT !.rows = Slice(Xf.rows, ts, Len(Xf.rows))])
    /\ Advance("TrainKernel")
    /\ UNCHANGED << lib, input, prepVars, modelVars, outVars >>

\* optimize_svm going on to prediction with the LSTM left untrained
TrainKernelThenPredict ==
    /\ pc = "TrainKernel"
    /\ IF Len(X_train.rows) < cv
       THEN /\ Raise("ValueError")
            /\ UNCHANGED svm_model
       ELSE /\ svm_model' \in Fits
            /\ Advance("Predict")
    /\ UNCHANGED << lib, input, prepVars, splitVars, lstm_model, outVars >>

\* optimize_svm fitting whatever the number of training rows
TrainKernelUnchecked ==
    /\ pc = "TrainKernel"
    /\ svm_model' \in Fits
    /\ Advance("TrainSequence")
    /\ UNCHANGED << lib, input, prepVars, splitVars, lstm_model, outVars >>

\* line 126: optimize_svm; KFold(5) refuses fewer than 5 samples
TrainKernel ==
    /\ pc = "TrainKernel"
    /\ IF Len(X_train.rows) < cv
       THEN /\ Raise("ValueError")
            /\ UNCHANGED svm_model
       ELSE /\ svm_model' \in Fits
            /\ Advance("TrainSequence")
    /\ UNCHANGED << lib, input, prepVars, splitVars, lstm_model, outVars >>

\* line 127: train_lstm; the backend may fail while fitting
TrainSequence ==
    /\ pc = "TrainSequence"
    /\ \E ok \in BOOLEAN :
          IF ok
          THEN /\ lstm_model' \in Fits
               /\ Advance("Predict")
          ELSE /\ Raise("RuntimeError")
               /\ UNCHANGED lstm_model
    /\ UNCHANGED << lib, input, prepVars, splitVars, svm_model, outVars >>

\* lines 130-131
Predict ==
    /\ pc = "Predict"
    /\ svm_predictions' = predict(svm_model, X_test)
    /\ lstm_predictions' = predict_lstm(lstm_model, X_test_lstm)
    /\ Advance("Ensemble")
    /\ UNCHANGED << lib, input, prepVars, splitVars, modelVars,
                    combined_predictions, metrics, result >>

\* line 132
Ensemble ==
    /\ pc = "Ensemble"
    /\ combined_predictions' = combine(svm_predictions, lstm_predictions)
    /\ Advance("Score")
    /\ UNCHANGED << lib, input, prepVars, splitVars, modelVars,
                    svm_predictions, lstm_predictions, metrics, result >>

\* lines 135-140: the six metrics (their values are not modelled)
Score ==
    /\ pc = "Score"
    /\ metrics' = MetricNames
    /\ Advance("Package")
    /\ UNCHANGED << lib, input, prepVars, splitVars, modelVars,
                    svm_predictions, lstm_predictions, combined_predictions,
                    result >>

\* the tuple of lines 142-145, in its order
Bundle ==
    << svm_predictions, lstm_predictions, combined_predictions,
       "mape_svm", "mape_lstm", "mape_combined",
       "rmse_svm", "rmse_lstm", "rmse_combined",
       dates_test, y_test >>

\* lines 142-145
Package ==
    /\ pc = "Package"
    /\ result' = Bundle
    /\ Advance("Done")
    /\ UNCHANGED << lib, input, prepVars, splitVars, modelVars,
                    svm_predictions, lstm_predictions, combined_predictions,
                    metrics >>

Next ==
    \/ Fetch
    \/ Clean
    \/ Normalize
    \/ SelectFeatures
    \/ Split
    \/ TrainKernel
    \/ TrainSequence
    \/ Predict
    \/ Ensemble
    \/ Score
    \/ Package

Spec == Init /\ [][Next]_vars


(***************************************************************************)
(* Properties.                                                             *)
(***************************************************************************)
Ran(stage) == stage \in Range(stages)

Returned == pc = "Done"

\* rows left after cleaning
CleanCount == Len(origin)

\* k = floor(0.8 * n), stated without the program's arithmetic
IsFloorOfFourFifths(k, n) == 5 * k <= 4 * n /\ 4 * n < 5 * k + 5

\* the cleaned raw frame the run normalised
CleanedInput == clean_data(DropColumn(read_csv(input), "Date"))

(***************************************************************************)
(* C1 (as claimed): whenever generate_predictions returns, y_test, the     *)
(* three prediction vectors and dates_test all have n - floor(0.8 n)       *)
(* entries, n the number of rows after cleaning, and dates_test[i] is the  *)
(* date of the raw record the i-th test row was derived from.              *)
(***************************************************************************)
C1_AlignedOutputs ==
    Returned =>
        LET n == CleanCount
            t == Len(y_test)
        IN  /\ IsFloorOfFourFifths(n - t, n)
            /\ Len(svm_predictions) = t
            /\ Len(lstm_predictions) = t
            /\ Len(combined_predictions) = t
            /\ Len(dates_test) = t
            /\ \A i \in 1..t :
                  dates_test[i] = Rat(RawDate(origin[(n - t) + i]))

(***************************************************************************)
(* C2: the stages run in the fixed order Fetch, Clean, Normalize,          *)
(* SelectFeatures, Split, TrainKernel, TrainSequence, Predict, Ensemble,   *)
(* Score, Package, none skipped or repeated, and Ensemble never starts     *)
(* before both models are trained.                                         *)
(***************************************************************************)
C2_StageOrder ==
    /\ Len(stages) <= Len(StageOrder)
    /\ \A i \in 1..Len(stages) : stages[i] = StageOrder[i]
    /\ pc \notin { "Done", "Error" } =>
          /\ Len(stages) < Len(StageOrder)
          /\ pc = StageOrder[Len(stages) + 1]
    /\ Returned => stages = StageOrder
    /\ (pc = "Ensemble" \/ Ran("Ensemble")) =>
          /\ Ran("TrainKernel") /\ Ran("TrainSequence")
          /\ svm_model \in Fits /\ lstm_model \in Fits

C2_Witness ==
    /\ Returned
    /\ stages = StageOrder
    /\ Len(combined_predictions) > 0

(***************************************************************************)
(* C3: a call ends either with the complete 11-element bundle and no       *)
(* error, or with one error and no bundle; after the error no further      *)
(* stage runs, and until the return nothing is handed to the caller.       *)
(***************************************************************************)
C3_BundleOrError ==
    /\ [](/\ Returned =>
              /\ error = "none"
              /\ Len(result) = 11
              /\ result = Bundle
              /\ metrics = MetricNames
              /\ stages = StageOrder
          /\ pc = "Error" =>
              /\ error # "none"
              /\ Len(result) = 0
          /\ pc \notin { "Done", "Error" } =>
              /\ error = "none"
              /\ Len(result) = 0)
    /\ [][pc \notin { "Done", "Error" }]_vars

C3_Witness ==
    /\ pc = "Error"
    /\ error = "ValueError"
    /\ stages[Len(stages)] = "TrainKernel"
    /\ Len(X_test.rows) > 0
    /\ Len(result) = 0

(***************************************************************************)
(* C4: the split is by position: the training segment is the first         *)
(* floor(0.8 n) rows, the test segment the rest, in their order, and every *)
(* training date is <= every test date.                                    *)
(***************************************************************************)
C4_SplitByPosition ==
    Ran("Split") =>
        LET n == Len(X.rows)
            k == Len(X_train.rows)
        IN  /\ n = Len(data.rows)
            /\ IsFloorOfFourFifths(k, n)
            /\ train_size = k
            /\ Len(X_test.rows) = n - k
            /\ \A i \in 1..k : X_train.rows[i] = X.rows[i] /\ y_train[i] = y[i]
            /\ \A i \in 1..(n - k) :
                  X_test.rows[i] = X.rows[k + i] /\ y_test[i] = y[k + i]
            /\ Len(y_train) = k /\ Len(y_test) = n - k
            /\ \A i \in 1..k : \A j \in (k + 1)..n :
                  RawDate(origin[i]) <= RawDate(origin[j])
            /\ \A i \in 1..Len(dates_train) : \A j \in 1..Len(dates_test) :
                  RatLe(dates_train[i], dates_test[j])

C4_Witness ==
    /\ Ran("Split")
    /\ Len(X_train.rows) >= 2
    /\ Len(X_test.rows) >= 2

(***************************************************************************)
(* C5: every ensemble prediction is the median (for two members, the       *)
(* mean) of the SVR and the LSTM prediction of its row, and so lies        *)
(* between the two.                                                        *)
(***************************************************************************)
C5_EnsembleBetween ==
    Ran("Ensemble") =>
        /\ Len(combined_predictions) = Len(svm_predictions)
        /\ Len(combined_predictions) = Len(lstm_predictions)
        /\ \A i \in 1..Len(combined_predictions) :
              LET a == svm_predictions[i]
                  b == lstm_predictions[i]
                  c == combined_predictions[i]
              IN  /\ RatLe(RatMin(a, b), c)
                  /\ RatLe(c, RatMax(a, b))
                  /\ RatEq(<< 2 * c[1], c[2] >>, RatAdd(a, b))

C5_Witness ==
    /\ Ran("Ensemble")
    /\ \E i \in 1..Len(combined_predictions) :
          RatLt(svm_predictions[i], lstm_predictions[i])
    /\ \E i \in 1..Len(combined_predictions) :
          RatLt(lstm_predictions[i], svm_predictions[i])


(***************************************************************************)
(* C6 (as claimed): once select_features has run, it has either returned   *)
(* exactly num_features names, or, the frame holding fewer than            *)
(* num_features candidate columns, raised, so that the call ended there    *)
(* and no model was trained.                                               *)
(***************************************************************************)
CandidateCount == Len(input.cols) - 1

C6_ExactlyKOrError ==
    Ran("SelectFeatures") =>
        /\ Len(selected_features) > 0 =>
              Len(selected_features) = num_features + 1
        /\ CandidateCount < num_features =>
              /\ pc = "Error"
              /\ stages[Len(stages)] = "SelectFeatures"
              /\ svm_model = "none" /\ lstm_model = "none"

IsColumnMin(df, c, i) == \A j \in 1..Len(df.rows) : RatLe(df.rows[i][c], df.rows[j][c])

IsColumnMax(df, c, i) == \A j \in 1..Len(df.rows) : RatLe(df.rows[j][c], df.rows[i][c])

IsConstantColumn(df, c) ==
    \A i, j \in 1..Len(df.rows) : RatEq(df.rows[i][c], df.rows[j][c])

InUnitInterval(v) == v[2] > 0 /\ RatLe(Rat(0), v) /\ RatLe(v, Rat(1))

FrameEq(a, b) ==
    /\ a.columns = b.columns
    /\ Len(a.rows) = Len(b.rows)
    /\ \A i \in 1..Len(a.rows) : \A c \in Range(a.columns) :
          RatEq(a.rows[i][c], b.rows[i][c])

SeriesEq(a, b) ==
    /\ Len(a) = Len(b)
    /\ \A i \in 1..Len(a) : RatEq(a[i], b[i])

\* the locals of a run on series f, up to the split
RunUpToSplit(f) ==
    LET cleaned == clean_data(DropColumn(read_csv(f), "Date"))
        normal  == normalize_data(cleaned).frame
        chosen  == Append(select_features(lib, DropColumn(normal, target_column),
                                          Column(normal, target_column), num_features),
                          target_column)
        reduced == Project(normal, chosen)
        Xf      == DropColumn(reduced, target_column)
        yv      == Column(reduced, target_column)
        ts      == TrainSize(Len(Xf.rows))
    IN  [cleaned |-> cleaned,
         selected_features |-> chosen,
         X_train |-> [Xf EXCEPT !.rows = Slice(Xf.rows, 0, ts)],
         y_train |-> Slice(yv, 0, ts)]

\* the two series, cleaned, have the same rows in the training segment
AgreeOnTraining(f, g) ==
    LET a == clean_data(DropColumn(read_csv(f), "Date"))
        b == clean_data(DropColumn(read_csv(g), "Date"))
        k == TrainSize(Len(a.rows))
    IN  /\ a.columns = b.columns
        /\ Len(a.rows) = Len(b.rows)
        /\ \A i \in 1..k : \A c \in Range(a.columns) :
              RatEq(a.rows[i][c], b.rows[i][c])

Alternatives ==
    { f \in Frames : f.n = input.n /\ f.cols = input.cols /\ f.nanRow = input.nanRow }

C9_NoLeakIntoTraining ==
    pc = "TrainKernel" =>
        \A f \in Alternatives :
            AgreeOnTraining(input, f) =>
                LET other == RunUpToSplit(f)
                IN  /\ other.selected_features = selected_features
                    /\ FrameEq(other.X_train, X_train)
                    /\ SeriesEq(other.y_train, y_train)

(***************************************************************************)
(* C10 (as claimed): in every run that reaches the split the feature set   *)
(* holds exactly num_features + 1 = 6 different names, 'Close' once and    *)
(* last, 'Close' is not among the columns select_features chose from, and  *)
(* the X handed to the models has no 'Close' column.                       *)
(***************************************************************************)
C10_FeatureSet ==
    (pc = "Split" \/ Ran("Split")) =>
        /\ Len(selected_features) = num_features + 1
        /\ Cardinality(Range(selected_features)) = Len(selected_features)
        /\ Cardinality({ i \in 1..Len(selected_features) :
                            selected_features[i] = target_column }) = 1
        /\ data.columns = selected_features
        /\ Ran("Split") =>
              /\ target_column \notin Range(X.columns)
              /\ target_column \notin Range(X_train.columns)
              /\ target_column \notin Range(X_test.columns)
              /\ Len(X.columns) = num_features

====
